---- MODULE Spec2Model ----
(***************************************************************************)
(* Model of the AllFoodSicily editorial pipeline (vincibusa/automazione-   *)
(* allfood): the bounded parallel scrape and article-generation batches,   *)
(* the research stage with its URL deduplication, the orchestrator of the  *)
(* scheduled workflow, the ad-hoc pipeline of one request and its keyword  *)
(* extraction.                                                             *)
(*                                                                         *)
(* The asyncio event loop is one thread: a coroutine runs without          *)
(* interruption from one await to the next, so every event-loop action     *)
(* below is one such run.  The blocking oracle calls run in worker threads *)
(* (ThreadPoolExecutor) and return, or never return, on their own.         *)
(***************************************************************************)
EXTENDS Integers, Sequences, FiniteSets, TLC

VARIABLES
    mode,            \* which component this behaviour exercises
    stage,           \* "scrape" | "generate" | "none": the batch that runs
    max_concurrent,  \* capacity handed to asyncio.Semaphore(...)
    len_topics,      \* len(topics) handed to execute_generation_phase
    max_articles_per_run, \* settings.MAX_ARTICLES_PER_RUN of the run
    pc,              \* per unit: position of its coroutine
    call,            \* per unit: state of the blocking call in its worker thread
    timedOut,        \* per unit: asyncio.wait_for raised TimeoutError
    slot,            \* per unit: what its task finished with (result or exception)
    permits,         \* asyncio.Semaphore._value
    waiters,         \* asyncio.Semaphore._waiters (FIFO)
    doneOrder,       \* units in the order their tasks finished
    results,         \* the list asyncio.gather returned (<<>> before it returns)
    phase,           \* "running" | "done" | "raised": the batch as a whole
    scraped_content, \* scrape_sites_parallel: list returned
    successful,      \* scrape_sites_parallel: tally
    failed,          \* scrape_sites_parallel: tally
    timeout_count,   \* scrape_sites_parallel: tally
    articles,        \* generate_all_articles_parallel: list returned
    answer,          \* per query: the result URLs the oracle has for it
    parOut,          \* per query: outcome of its parallel search unit
    seqOut,          \* per query: outcome of its call in the sequential loop
    seqIdx,          \* sequential loop of search_food_news: next query
    all_results,     \* search_food_news: merged list
    unique_results,  \* search_food_news: list returned
    rphase,          \* "idle" | "parallel" | "sequential" | "done"
    entry,           \* "job" (scheduled_workflow_job) | "once" (run_workflow_once)
    loop_running,    \* the calling thread runs an event loop during the run
    legacy_defined,  \* TelegramNotifier and the GOOGLE_* settings are defined
    opc,             \* position of the entry point's coroutine
    stageOut,        \* per stage: "pending" | "returned" | "raised"
    calls,           \* per stage: how many times its execute_* was called
    attempts,        \* attempts of analyze_topics made (one oracle call each)
    error,           \* class of the exception the handler caught, "none" if none
    search_results,  \* number of results execute_search_phase returned
    scraped,         \* number of contents execute_scrape_phase returned
    topics,          \* number of topics execute_analysis_phase returned
    gen_articles,    \* topics (by position) whose article the generation returned
    result,          \* the WorkflowResult built, if any
    summaries,       \* outcomes of the send_workflow_summary calls
    errorNotes,      \* outcomes of the send_error_notification calls
    exitCode,        \* argument of sys.exit, -1 while none was called
    mpc,             \* position of execute_manual_workflow's coroutine
    research_failed, \* the oracle call of the research raised
    research_results, \* execute_manual_workflow: search_results (their urls)
    fonti,           \* topic.fonti
    article_attempts, \* attempts of generate_article made
    article_content, \* "None" | "text" | "empty" (no text in the response)
    image_prompt,    \* "None" | "oracle" | "fallback"
    image_attempts,  \* attempts of generate_image made
    image_failed,    \* the image step raised into the pipeline's handler
    image_base64,    \* "None" | "data"
    article,         \* the Article built, if any
    pdf_bytes,       \* "None" before rendering, then the kind of PDF returned
    raised_exc,      \* class of the exception that left the coroutine
    kpc,             \* "idle" | "called" | "returned": _extract_keywords
    topic_text,      \* _extract_keywords: its argument, as the sequence of the
                     \* text's maximal runs of non-whitespace characters
    keywords         \* _extract_keywords: the list returned

\* What a batch is started with; no step of the batch changes it.
batchConfig == <<stage, max_concurrent, len_topics, max_articles_per_run>>

batchVars == <<batchConfig, pc, call, timedOut, slot, permits, waiters,
               doneOrder, results, phase, scraped_content, successful, failed,
               timeout_count, articles>>

researchVars == <<answer, parOut, seqOut, seqIdx, all_results, unique_results, rphase>>

orchVars == <<entry, loop_running, legacy_defined, opc, stageOut, calls, attempts,
              error, search_results, scraped, topics, gen_articles, result,
              summaries, errorNotes, exitCode>>

manualVars == <<mpc, research_failed, research_results, fonti, article_attempts,
                article_content, image_prompt, image_attempts, image_failed,
                image_base64, article, pdf_bytes, raised_exc>>

keywordVars == <<kpc, topic_text, keywords>>

notBatch == <<mode, researchVars, orchVars, manualVars, keywordVars>>
notResearch == <<mode, batchVars, orchVars, manualVars, keywordVars>>
notOrch == <<mode, batchVars, researchVars, manualVars, keywordVars>>
notManual == <<mode, batchVars, researchVars, orchVars, keywordVars>>
notKeywords == <<mode, batchVars, researchVars, orchVars, manualVars>>

vars == <<mode, batchVars, researchVars, orchVars, manualVars, keywordVars>>

(***************************************************************************)
(* Bounds and program constants                                            *)
(***************************************************************************)
NumSites == 4               \* monitored sources in a modelled run (ALL_SITES)
NumTopics == 4              \* most topics handed to the generation stage
LowArticleLimit == 2        \* a MAX_ARTICLES_PER_RUN set below the default
MaxConcurrent == 2          \* largest max_concurrent tried for scraping
GenConcurrency == 3         \* asyncio.Semaphore(3) of the generation stage

NumQueries == 3             \* len(SEARCH_QUERIES)
MaxPerQuery == 1            \* results the oracle returns for one query
MaxFound == 1               \* search results / scraped contents a stage returns
MaxSelected == 3            \* topics the analysis returns
MAX_ARTICLES_PER_RUN == 5   \* settings.MAX_ARTICLES_PER_RUN (default)
RetryAttempts == 3          \* retry_api_call(max_attempts=3)
TopSources == 5             \* search_results[:5] of the ad-hoc pipeline
MaxResearch == 2            \* results the research of one topic returns
MaxWords == 6               \* most words of a topic text
KeywordLimit == 5           \* keywords[:5]
MinKeywordLen == 2          \* len(w) > 2
Urls == {"", "a", "b"}      \* "" is an empty or absent url

Min(a, b) == IF a < b THEN a ELSE b

\* The values settings.MAX_ARTICLES_PER_RUN takes in the modelled runs: the
\* default and a lower one set through the environment.
ArticleLimits == {LowArticleLimit, MAX_ARTICLES_PER_RUN}

\* Mutation of NumUnits: a task for every topic, the cap not applied.
NumUnitsUncapped == IF stage = "scrape" THEN NumSites
                    ELSE IF stage = "generate" THEN len_topics ELSE 0

\* The tasks created: one per site of ALL_SITES, or one per topic of
\* topics[:max_articles] with max_articles = min(len(topics),
\* settings.MAX_ARTICLES_PER_RUN).
NumUnits == IF stage = "scrape" THEN NumSites
            ELSE IF stage = "generate" THEN Min(len_topics, max_articles_per_run) ELSE 0
Units == 1..NumUnits

None == [kind |-> "none", unit |-> 0, tag |-> 0]

\* Values of the batch variables while another component runs.
BatchIdle ==
    /\ stage = "none"
    /\ max_concurrent = 0
    /\ len_topics = 0
    /\ max_articles_per_run = 0
    /\ pc = <<>>
    /\ call = <<>>
    /\ timedOut = <<>>
    /\ slot = <<>>
    /\ permits = 0
    /\ waiters = <<>>
    /\ doneOrder = <<>>
    /\ results = <<>>
    /\ phase = "idle"
    /\ scraped_content = <<>>
    /\ successful = 0
    /\ failed = 0
    /\ timeout_count = 0
    /\ articles = <<>>

\* Values of the research variables while another component runs.
ResearchIdle ==
    /\ answer = <<>>
    /\ parOut = <<>>
    /\ seqOut = <<>>
    /\ seqIdx = 0
    /\ all_results = <<>>
    /\ unique_results = <<>>
    /\ rphase = "idle"

Stages == {"search", "scrape", "analysis", "generation", "output"}

\* No WorkflowResult has been constructed.
NoResult == [built |-> FALSE, articles |-> <<>>, sources_monitored |-> 0,
             success |-> FALSE, error_message |-> ""]

\* Values of the orchestrator variables while another component runs.
OrchIdle ==
    /\ entry = "none"
    /\ loop_running = FALSE
    /\ legacy_defined = FALSE
    /\ opc = "idle"
    /\ stageOut = <<>>
    /\ calls = <<>>
    /\ attempts = 0
    /\ error = "none"
    /\ search_results = 0
    /\ scraped = 0
    /\ topics = 0
    /\ gen_articles = <<>>
    /\ result = NoResult
    /\ summaries = <<>>
    /\ errorNotes = <<>>
    /\ exitCode = -1

\* No Article has been constructed.
NoArticle == [built |-> FALSE, content |-> "None", image_base64 |-> "None",
              fonti |-> <<>>, sources |-> <<>>]

\* Values of the ad-hoc pipeline's variables while another component runs.
ManualIdle ==
    /\ mpc = "idle"
    /\ research_failed = FALSE
    /\ research_results = <<>>
    /\ fonti = <<>>
    /\ article_attempts = 0
    /\ article_content = "None"
    /\ image_prompt = "None"
    /\ image_attempts = 0
    /\ image_failed = FALSE
    /\ image_base64 = "None"
    /\ article = NoArticle
    /\ pdf_bytes = "None"
    /\ raised_exc = "none"

\* Values of the keyword extraction's variables while another component runs.
KeywordsIdle ==
    /\ kpc = "idle"
    /\ topic_text = <<>>
    /\ keywords = <<>>

(***************************************************************************)
(* Pure helpers of the two batches                                         *)
(***************************************************************************)

\* scrape_url: the dict for extracted content, None for an empty response
\* and None for any exception (caught at the bottom of the method).
ScrapeUrl(outcome, url) ==
    IF outcome = "content"
    THEN [kind |-> "content", unit |-> url, tag |-> 0]
    ELSE None

\* scrape_with_semaphore: a truthy result is tagged with the site of the
\* coroutine's own argument.
TagSite(scraped_item, site) ==
    IF scraped_item.kind = "content" THEN [scraped_item EXCEPT !.tag = site] ELSE scraped_item

\* Mutation of GenerateSingleArticle: the topics taken in reverse order.
GenerateSingleArticleReranked(outcome, topic) ==
    IF outcome \in {"content", "empty"}
    THEN [kind |-> "article", unit |-> topic, tag |-> NumUnits + 1 - topic]
    ELSE [kind |-> "exception", unit |-> 0, tag |-> 0]

\* generate_single_article: the Article of the topic (whatever the text, an
\* empty one included), or the exception that generate_article raised
\* (re-raised after logging).
GenerateSingleArticle(outcome, topic) ==
    IF outcome \in {"content", "empty"}
    THEN [kind |-> "article", unit |-> topic, tag |-> topic]
    ELSE [kind |-> "exception", unit |-> 0, tag |-> 0]

TimeoutErrorSlot == [kind |-> "timeout", unit |-> 0, tag |-> 0]

IsException(r) == r.kind \in {"exception", "timeout"}

\* Mutation of GatherResults: results in completion order (as_completed).
GatherResultsInCompletionOrder(slots, order) ==
    [k \in DOMAIN slots |-> slots[order[k]]]

\* asyncio.gather(*tasks, ...): the i-th result is the i-th task's, whatever
\* the order in which the tasks finished.
GatherResults(slots, order) == [i \in DOMAIN slots |-> slots[i]]

\* Mutation of GatherRaises: gather without return_exceptions=True.
GatherRaisesFirstException(rs) ==
    \E i \in DOMAIN rs : IsException(rs[i])

\* asyncio.gather(..., return_exceptions=True): exceptions are returned in
\* the list, never raised out of the await.
GatherRaises(rs) == FALSE

RECURSIVE KeepIf(_, _, _)
KeepIf(rs, i, kinds) ==
    IF i > Len(rs) THEN <<>>
    ELSE (IF rs[i].kind \in kinds THEN <<rs[i]>> ELSE <<>>)
         \o KeepIf(rs, i + 1, kinds)

AsSeq(f) == [i \in 1..Cardinality(DOMAIN f) |-> f[i]]

CountKind(rs, kinds) == Cardinality({i \in DOMAIN rs : rs[i].kind \in kinds})

\* Mutation of ScrapedContentOf: the `if result:` test dropped.
ScrapedContentKeepsNone(rs) == KeepIf(AsSeq(rs), 1, {"content", "none"})

\* scrape_sites_parallel, "Processa risultati": the loop over the gathered
\* results and its four tallies.
ScrapedContentOf(rs) == KeepIf(AsSeq(rs), 1, {"content"})
SuccessfulOf(rs) == CountKind(rs, {"content"})

\* Mutation of FailedOf: the `else` branch of `if result:` does not count.
FailedOfExceptionsOnly(rs) == CountKind(rs, {"exception", "timeout"})

\* failed: an exception in the list, or a result that is None.
FailedOf(rs) == CountKind(rs, {"exception", "timeout"}) + CountKind(rs, {"none"})
TimeoutCountOf(rs) == 0

\* Mutation of ArticlesOf: the isinstance(result, Exception) test dropped.
ArticlesKeepExceptions(rs) == KeepIf(AsSeq(rs), 1, {"article", "exception", "timeout"})

\* generate_all_articles_parallel, "Process results": exceptions skipped,
\* truthy results appended.
ArticlesOf(rs) == KeepIf(AsSeq(rs), 1, {"article"})

(***************************************************************************)
(* The batch: scrape_sites_parallel / generate_all_articles_parallel       *)
(***************************************************************************)

\* The event-loop thread is inside ThreadPoolExecutor.__exit__, i.e.
\* shutdown(wait=True), joining a worker whose call is still running.
LoopBlocked == \E i \in Units : pc[i] = "shutdown"

AllStarted == \A i \in Units : pc[i] # "new"

Holders == {i \in Units : pc[i] \in {"awaiting", "shutdown"}}

Capacity == IF stage = "scrape" THEN max_concurrent ELSE GenConcurrency

\* Mutation of Release: the permit is not given back.
ReleaseLost(p) == p

\* `async with semaphore`, __aexit__: semaphore.release() on every way out
\* of the block, by return or by exception.
Release(p) == p + 1

\* Mutation of CanAcquire: off by one.
CanAcquireOffByOne == permits >= 0

\* asyncio.Semaphore.acquire without waiting: a permit is free.
CanAcquire == permits > 0

InitBatch ==
    /\ mode = "batch"
    /\ \/ /\ stage = "scrape" /\ max_concurrent \in 1..MaxConcurrent
          /\ len_topics = 0 /\ max_articles_per_run = 0
       \/ /\ stage = "generate" /\ max_concurrent = GenConcurrency
          /\ len_topics \in 1..NumTopics
          /\ max_articles_per_run \in ArticleLimits
    /\ pc = [i \in Units |-> "new"]
    /\ call = [i \in Units |-> "idle"]
    /\ timedOut = [i \in Units |-> FALSE]
    /\ slot = [i \in Units |-> None]
    /\ permits = max_concurrent
    /\ waiters = <<>>
    /\ doneOrder = <<>>
    /\ results = <<>>
    /\ phase = "running"
    /\ scraped_content = <<>>
    /\ successful = 0
    /\ failed = 0
    /\ timeout_count = 0
    /\ articles = <<>>
    /\ ResearchIdle
    /\ OrchIdle
    /\ ManualIdle
    /\ KeywordsIdle

\* The task of unit i runs for the first time: `async with semaphore`, then
\* (with a permit) up to the await of wait_for(run_in_executor(...)).
Start(i) ==
    /\ mode = "batch" /\ phase = "running"
    /\ pc[i] = "new"
    /\ \A j \in Units : j < i => pc[j] # "new"
    /\ ~LoopBlocked
    /\ IF CanAcquire
       THEN /\ permits' = permits - 1
            /\ pc' = [pc EXCEPT ![i] = "awaiting"]
            /\ call' = [call EXCEPT ![i] = "running"]
            /\ UNCHANGED waiters
       ELSE /\ waiters' = Append(waiters, i)
            /\ pc' = [pc EXCEPT ![i] = "waiting"]
            /\ UNCHANGED <<permits, call>>
    /\ UNCHANGED batchConfig
    /\ UNCHANGED <<timedOut, slot, doneOrder, results, phase,
                   scraped_content, successful, failed, timeout_count, articles>>
    /\ UNCHANGED notBatch

\* The first waiter of the semaphore is woken after a release and takes the
\* permit.
Wake(i) ==
    /\ mode = "batch" /\ phase = "running"
    /\ pc[i] = "waiting"
    /\ waiters # <<>> /\ Head(waiters) = i
    /\ CanAcquire
    /\ ~LoopBlocked
    /\ permits' = permits - 1
    /\ waiters' = Tail(waiters)
    /\ pc' = [pc EXCEPT ![i] = "awaiting"]
    /\ call' = [call EXCEPT ![i] = "running"]
    /\ UNCHANGED batchConfig
    /\ UNCHANGED <<timedOut, slot, doneOrder, results, phase,
                   scraped_content, successful, failed, timeout_count, articles>>
    /\ UNCHANGED notBatch

\* The blocking oracle call of unit i returns in its worker thread.  After a
\* timeout the future is already cancelled and the value is dropped.
ThreadReturn(i, outcome) ==
    /\ mode = "batch"
    /\ call[i] = "running"
    /\ call' = [call EXCEPT ![i] = IF pc[i] = "shutdown" THEN "abandoned" ELSE outcome]
    /\ UNCHANGED batchConfig
    /\ UNCHANGED <<pc, timedOut, slot, permits, waiters,
                   doneOrder, results, phase, scraped_content, successful, failed,
                   timeout_count, articles>>
    /\ UNCHANGED notBatch

\* What the task of unit i finishes with once its call has returned in time.
CompletedSlot(i) ==
    IF stage = "scrape"
    THEN TagSite(ScrapeUrl(call[i], i), i)
    ELSE GenerateSingleArticle(call[i], i)

\* What the task of unit i finishes with after wait_for raised TimeoutError:
\* scrape_url_async returns None, generate_article_async re-raises.
TimedOutSlot(i) == IF stage = "scrape" THEN None ELSE TimeoutErrorSlot

\* The future of unit i is done: wait_for returns (or raises the call's
\* exception), the executor is shut down at once, the permit is released.
Complete(i) ==
    /\ mode = "batch" /\ phase = "running"
    /\ pc[i] = "awaiting"
    /\ call[i] \in {"content", "empty", "raise"}
    /\ AllStarted
    /\ ~LoopBlocked
    /\ slot' = [slot EXCEPT ![i] = CompletedSlot(i)]
    /\ pc' = [pc EXCEPT ![i] = "done"]
    /\ permits' = Release(permits)
    /\ doneOrder' = Append(doneOrder, i)
    /\ UNCHANGED batchConfig
    /\ UNCHANGED <<call, timedOut, waiters, results, phase,
                   scraped_content, successful, failed, timeout_count, articles>>
    /\ UNCHANGED notBatch

\* 60 seconds pass with the call of unit i still running: wait_for cancels
\* the future and raises TimeoutError inside `with ThreadPoolExecutor(...)`,
\* whose __exit__ calls shutdown(wait=True) on the event-loop thread.
Timeout(i) ==
    /\ mode = "batch" /\ phase = "running"
    /\ pc[i] = "awaiting"
    /\ call[i] = "running"
    /\ AllStarted
    /\ ~LoopBlocked
    /\ timedOut' = [timedOut EXCEPT ![i] = TRUE]
    /\ pc' = [pc EXCEPT ![i] = "shutdown"]
    /\ UNCHANGED batchConfig
    /\ UNCHANGED <<call, slot, permits, waiters,
                   doneOrder, results, phase, scraped_content, successful, failed,
                   timeout_count, articles>>
    /\ UNCHANGED notBatch

\* shutdown(wait=True) returns once the worker's call has returned; the
\* TimeoutError then reaches its handler and the permit is released.
ShutdownDone(i) ==
    /\ mode = "batch" /\ phase = "running"
    /\ pc[i] = "shutdown"
    /\ call[i] = "abandoned"
    /\ slot' = [slot EXCEPT ![i] = TimedOutSlot(i)]
    /\ pc' = [pc EXCEPT ![i] = "done"]
    /\ permits' = Release(permits)
    /\ doneOrder' = Append(doneOrder, i)
    /\ UNCHANGED batchConfig
    /\ UNCHANGED <<call, timedOut, waiters, results, phase,
                   scraped_content, successful, failed, timeout_count, articles>>
    /\ UNCHANGED notBatch

\* Every task is done: gather returns and the results are processed.
GatherDone ==
    /\ mode = "batch" /\ phase = "running"
    /\ \A i \in Units : pc[i] = "done"
    /\ LET gathered == GatherResults(slot, doneOrder) IN
       IF GatherRaises(gathered)
       THEN /\ phase' = "raised"
            /\ UNCHANGED <<results, scraped_content, successful, failed,
                           timeout_count, articles>>
       ELSE /\ phase' = "done"
            /\ results' = gathered
            /\ IF stage = "scrape"
               THEN /\ scraped_content' = ScrapedContentOf(gathered)
                    /\ successful' = SuccessfulOf(gathered)
                    /\ failed' = FailedOf(gathered)
                    /\ timeout_count' = TimeoutCountOf(gathered)
                    /\ UNCHANGED articles
               ELSE /\ articles' = ArticlesOf(gathered)
                    /\ UNCHANGED <<scraped_content, successful, failed, timeout_count>>
    /\ UNCHANGED batchConfig
    /\ UNCHANGED <<pc, call, timedOut, slot, permits,
                   waiters, doneOrder>>
    /\ UNCHANGED notBatch

Outcomes == {"content", "empty", "raise"}

NextBatch ==
    \/ \E i \in Units : Start(i)
    \/ \E i \in Units : Wake(i)
    \/ \E i \in Units : \E o \in Outcomes : ThreadReturn(i, o)
    \/ \E i \in Units : Complete(i)
    \/ \E i \in Units : Timeout(i)
    \/ \E i \in Units : ShutdownDone(i)
    \/ GatherDone

SpecBatch == InitBatch /\ [][NextBatch]_vars

(***************************************************************************)
(* The research stage: GeminiSearch.search_food_news                       *)
(***************************************************************************)

Queries == 1..NumQueries

\* The lists of result URLs the oracle may hold for one query.
Answers == UNION {[1..k -> Urls] : k \in 0..MaxPerQuery}

\* The lists of result URLs the research of one topic may return.
ResearchAnswers == UNION {[1..k -> Urls] : k \in 0..MaxResearch}

\* The result dicts of one successful oracle call: one per URL, each marked
\* with the call (pass and query) and the position it comes from.
ItemsOf(urls, pass, q) ==
    [k \in 1..Len(urls) |-> [url |-> urls[k], pass |-> pass, q |-> q, k |-> k]]

\* _search_single_query: the call's results, or [] when anything raised.
SearchSingleQuery(outcome, q) ==
    IF outcome = "ok" THEN ItemsOf(answer[q], "par", q) ELSE <<>>

\* search_all_queries_parallel, "Flatten results": the gathered lists
\* concatenated in query order.
RECURSIVE Flatten(_, _)
Flatten(outs, q) ==
    IF q > NumQueries THEN <<>>
    ELSE SearchSingleQuery(outs[q], q) \o Flatten(outs, q + 1)

\* Mutation of DedupeFrom: a result with an empty url is always kept.
RECURSIVE DedupeKeepingBlank(_, _, _)
DedupeKeepingBlank(items, i, seen_urls) ==
    IF i > Len(items) THEN <<>>
    ELSE IF items[i].url = "" \/ items[i].url \notin seen_urls
         THEN <<items[i]>> \o DedupeKeepingBlank(items, i + 1, seen_urls \cup {items[i].url})
         ELSE DedupeKeepingBlank(items, i + 1, seen_urls)

\* Mutation of DedupeFrom: the seen-set never filled.
RECURSIVE DedupeNeverSeen(_, _, _)
DedupeNeverSeen(items, i, seen_urls) ==
    IF i > Len(items) THEN <<>>
    ELSE IF items[i].url # "" /\ items[i].url \notin seen_urls
         THEN <<items[i]>> \o DedupeNeverSeen(items, i + 1, seen_urls)
         ELSE DedupeNeverSeen(items, i + 1, seen_urls)

\* search_food_news, "Remove duplicates based on URL": the loop from item i
\* on, with the set of URLs seen so far.
RECURSIVE DedupeFrom(_, _, _)
DedupeFrom(items, i, seen_urls) ==
    IF i > Len(items) THEN <<>>
    ELSE IF items[i].url # "" /\ items[i].url \notin seen_urls
         THEN <<items[i]>> \o DedupeFrom(items, i + 1, seen_urls \cup {items[i].url})
         ELSE DedupeFrom(items, i + 1, seen_urls)

InitResearch ==
    /\ mode = "research"
    /\ BatchIdle
    /\ OrchIdle
    /\ ManualIdle
    /\ KeywordsIdle
    /\ answer \in [Queries -> Answers]
    /\ parOut = [q \in Queries |-> "pending"]
    /\ seqOut = [q \in Queries |-> "pending"]
    /\ seqIdx = 0
    /\ all_results = <<>>
    /\ unique_results = <<>>
    /\ rphase = "parallel"

\* The worker thread of query q finishes _search_single_query: the oracle
\* call returned its results ("ok") or something raised ("raise").
ParReturn(q, outcome) ==
    /\ mode = "research" /\ rphase = "parallel"
    /\ parOut[q] = "pending"
    /\ parOut' = [parOut EXCEPT ![q] = outcome]
    /\ UNCHANGED <<answer, seqOut, seqIdx, all_results, unique_results, rphase>>
    /\ UNCHANGED notResearch

\* asyncio.gather returns: the lists are flattened in query order and
\* asyncio.run hands all_results to search_food_news.
ParGather ==
    /\ mode = "research" /\ rphase = "parallel"
    /\ \A q \in Queries : parOut[q] # "pending"
    /\ all_results' = Flatten(parOut, 1)
    /\ seqIdx' = 1
    /\ rphase' = "sequential"
    /\ UNCHANGED <<answer, parOut, seqOut, unique_results>>
    /\ UNCHANGED notResearch

\* One turn of the loop `for i, query in enumerate(SEARCH_QUERIES, 1)` that
\* follows asyncio.run: the oracle is called again for the query and its
\* results are appended; an exception is logged and the loop continues.
SeqQuery(outcome) ==
    /\ mode = "research" /\ rphase = "sequential"
    /\ seqIdx <= NumQueries
    /\ seqOut' = [seqOut EXCEPT ![seqIdx] = outcome]
    /\ all_results' = IF outcome = "ok"
                      THEN all_results \o ItemsOf(answer[seqIdx], "seq", seqIdx)
                      ELSE all_results
    /\ seqIdx' = seqIdx + 1
    /\ UNCHANGED <<answer, parOut, unique_results, rphase>>
    /\ UNCHANGED notResearch

\* The loop is over: duplicates are removed and the list is returned.
Dedupe ==
    /\ mode = "research" /\ rphase = "sequential"
    /\ seqIdx > NumQueries
    /\ unique_results' = DedupeFrom(all_results, 1, {})
    /\ rphase' = "done"
    /\ UNCHANGED <<answer, parOut, seqOut, seqIdx, all_results>>
    /\ UNCHANGED notResearch

NextResearch ==
    \/ \E q \in Queries : \E o \in {"ok", "raise"} : ParReturn(q, o)
    \/ ParGather
    \/ \E o \in {"ok", "raise"} : SeqQuery(o)
    \/ Dedupe

SpecResearch == InitResearch /\ [][NextResearch]_vars

(***************************************************************************)
(* Claims about the research stage                                         *)
(***************************************************************************)

NonEmptyUrls == {all_results[k].url : k \in DOMAIN all_results} \ {""}

FirstIndex(u) ==
    CHOOSE k \in DOMAIN all_results :
        /\ all_results[k].url = u
        /\ \A l \in DOMAIN all_results : all_results[l].url = u => k <= l

UrlsOf(items) == [k \in DOMAIN items |-> items[k].url]

\* C5: the deduplicated list contains each non-empty URL of the merged list
\* exactly once, the item kept for a URL is its first occurrence, and the
\* kept items are in the order of those first occurrences.
C5_FirstOccurrenceInOrder ==
    (mode = "research" /\ rphase = "done") =>
        /\ \A u \in NonEmptyUrls :
              /\ Cardinality({k \in DOMAIN unique_results : unique_results[k].url = u}) = 1
              /\ \E k \in DOMAIN unique_results : unique_results[k] = all_results[FirstIndex(u)]
        /\ \A k \in DOMAIN unique_results : \A l \in DOMAIN unique_results :
              (k < l /\ unique_results[k].url # "" /\ unique_results[l].url # "")
              => FirstIndex(unique_results[k].url) < FirstIndex(unique_results[l].url)

C5_Witness ==
    /\ mode = "research" /\ rphase = "done"
    /\ Cardinality(NonEmptyUrls) = 2
    /\ Len(unique_results) = 2
    /\ \E k \in DOMAIN all_results : \E l \in DOMAIN all_results :
          /\ k < l /\ all_results[k].url = "b" /\ all_results[l].url = "a"
          /\ FirstIndex("b") < FirstIndex("a")
          /\ \E m \in DOMAIN all_results : m > l /\ all_results[m].url = "b"

BlankItems(items) == {k \in DOMAIN items : items[k].url = ""}

\* C6 as stated: every result of the merged list whose URL is empty is kept
\* in the deduplicated output.
C6_BlankUrlsRetained ==
    (mode = "research" /\ rphase = "done") =>
        Cardinality(BlankItems(unique_results)) = Cardinality(BlankItems(all_results))

\* C6 as amended: no result whose URL is empty is in the deduplicated
\* output; every such item of the merged list is dropped.
C6_BlankUrlsDropped ==
    (mode = "research" /\ rphase = "done") => BlankItems(unique_results) = {}

C6_Witness ==
    /\ mode = "research" /\ rphase = "done"
    /\ Cardinality(BlankItems(all_results)) >= 2
    /\ BlankItems(unique_results) = {}
    /\ unique_results # <<>>

\* C7: whatever queries fail, the stage returns exactly the deduplicated
\* concatenation, in query order, of the results of the queries whose search
\* unit succeeded; a query whose unit raised contributes nothing.
C7_OnlySucceededQueries ==
    (mode = "research" /\ rphase = "done") =>
        UrlsOf(unique_results) = UrlsOf(DedupeFrom(Flatten(parOut, 1), 1, {}))

\* The search requests the oracle has received for query q: one from the
\* query's parallel unit, one from its turn of the loop that follows.
Requests(q) ==
    (IF parOut[q] # "pending" THEN 1 ELSE 0) + (IF seqOut[q] # "pending" THEN 1 ELSE 0)

\* How many results of the merged list come from query q.
MergedFrom(q) == Cardinality({k \in DOMAIN all_results : all_results[k].q = q})

\* C24: in one run of the research stage the oracle receives exactly one
\* search request for each configured query, and the merged list holds the
\* results of each query whose request succeeded once.
C24_OneRequestPerQuery ==
    (mode = "research" /\ rphase = "done") =>
        \A q \in Queries :
            /\ Requests(q) = 1
            /\ parOut[q] = "ok" => MergedFrom(q) = Len(answer[q])

\* The search units whose oracle call is outstanding.
InFlight == {q \in Queries : rphase = "parallel" /\ parOut[q] = "pending"}

\* A concurrency limit below the number of queries: the case in which a
\* gate holds some query back.
SearchLimit == NumQueries - 1

\* C28: the search queries run under a concurrency gate: with a limit
\* below the number of queries, the queries in flight at the same time are
\* never more than the limit.
C28_SearchesGated ==
    mode = "research" => Cardinality(InFlight) <= SearchLimit

(***************************************************************************)
(* The orchestrator: scheduled_workflow_job and run_workflow_once          *)
(*                                                                         *)
(* Both entry points are coroutines; their stages are synchronous calls    *)
(* made from the coroutine's body.  A run is modelled in a context given   *)
(* by two facts that no step of the run changes:                           *)
(*   loop_running   - the calling thread runs an event loop while the      *)
(*                    body executes.  main.py runs both entry points on a  *)
(*                    loop (asyncio.run, and the bot's JobQueue): TRUE.    *)
(*   legacy_defined - the names the output phase imports and reads exist   *)
(*                    (TelegramNotifier of services.telegram_bot, the      *)
(*                    GOOGLE_* settings).  The source defines neither:     *)
(*                    FALSE.                                               *)
(* The other contexts are explored as well, so that the branches of the    *)
(* entry points that lie behind the first stage are modelled too; in them  *)
(* what a stage returns is an input of the orchestrator.                   *)
(***************************************************************************)

\* The strictly increasing sequences over 1..n: the lists of articles a
\* generation over the first n topics can return.
RECURSIVE SubSeqs(_)
SubSeqs(n) ==
    IF n = 0 THEN {<<>>}
    ELSE SubSeqs(n - 1) \cup {Append(sq, n) : sq \in SubSeqs(n - 1)}

\* The context in which main.py and the source as it stands run the entry
\* points.
AsShipped == loop_running /\ ~legacy_defined

\* asyncio.run(coro) raises RuntimeError when the calling thread is
\* already running an event loop.
AsyncioRunRaises(running) == running

\* Exceptions that come from a collaborator (the oracle, a client that
\* cannot be constructed), as opposed to the program's own calls.
CollaboratorErrors == {"ClientError", "OracleError", "JSONDecodeError"}

\* Mutation of NoTopics: the emptiness test never true.
NoTopicsNever(n) == n < 0

\* `if not topics:` of both entry points.
NoTopics(n) == n = 0

\* WorkflowResult(...) of the no-topics branch.
NoTopicsResult ==
    [built |-> TRUE, articles |-> <<>>, sources_monitored |-> NumSites,
     success |-> FALSE, error_message |-> "No topics selected from analysis"]

\* WorkflowResult(...) built after the output phase.
CompletedResult(arts) ==
    [built |-> TRUE, articles |-> arts, sources_monitored |-> NumSites,
     success |-> TRUE, error_message |-> ""]

InitOrch ==
    /\ mode = "orch"
    /\ BatchIdle
    /\ ResearchIdle
    /\ ManualIdle
    /\ KeywordsIdle
    /\ entry \in {"job", "once"}
    /\ loop_running \in BOOLEAN
    /\ legacy_defined \in BOOLEAN
    /\ opc = "imports"
    /\ stageOut = [st \in Stages |-> "pending"]
    /\ calls = [st \in Stages |-> 0]
    /\ attempts = 0
    /\ error = "none"
    /\ search_results = 0
    /\ scraped = 0
    /\ topics = 0
    /\ gen_articles = <<>>
    /\ result = NoResult
    /\ summaries = <<>>
    /\ errorNotes = <<>>
    /\ exitCode = -1

\* A stage call raised exc: the `except Exception` handler of the entry
\* point runs next.
\* Mutation of NextStage: the scrape is skipped.
NextStageSkipping(st) ==
    CASE st = "search" -> "analysis"
      [] st = "scrape" -> "analysis"
      [] st = "analysis" -> "generation"
      [] st = "generation" -> "output"

\* The statement that follows the call of a stage that returned, in both
\* entry points (after the analysis: when topics were selected).
NextStage(st) ==
    CASE st = "search" -> "scrape"
      [] st = "scrape" -> "analysis"
      [] st = "analysis" -> "generation"
      [] st = "generation" -> "output"

Raised(st, exc) ==
    /\ calls' = [calls EXCEPT ![st] = @ + 1]
    /\ stageOut' = [stageOut EXCEPT ![st] = "raised"]
    /\ error' = exc
    /\ opc' = "caught"

Returned(st) ==
    /\ calls' = [calls EXCEPT ![st] = @ + 1]
    /\ stageOut' = [stageOut EXCEPT ![st] = "returned"]
    /\ UNCHANGED error

\* The imports at the top of the try block.  Importing
\* workflow.output_phase runs `from services.telegram_bot import
\* TelegramNotifier`, an ImportError unless that name is defined.
Imports ==
    /\ mode = "orch" /\ opc = "imports"
    /\ IF legacy_defined
       THEN opc' = "search" /\ UNCHANGED error
       ELSE opc' = "caught" /\ error' = "ImportError"
    /\ UNCHANGED <<entry, loop_running, legacy_defined, stageOut, calls, attempts,
                   search_results, scraped, topics, gen_articles, result, summaries,
                   errorNotes, exitCode>>
    /\ UNCHANGED notOrch

\* search_results = execute_search_phase(days_back=7): GeminiSearch() is
\* constructed, then search_food_news calls asyncio.run (on each of its
\* three attempts); per-query failures are absorbed inside.
SearchPhase ==
    /\ mode = "orch" /\ opc = "search"
    /\ IF AsyncioRunRaises(loop_running)
       THEN /\ \/ Raised("search", "RuntimeError")
               \/ Raised("search", "ClientError")
            /\ UNCHANGED search_results
       ELSE \/ /\ Returned("search")
               /\ search_results' \in 0..MaxFound
               /\ opc' = NextStage("search")
            \/ /\ Raised("search", "ClientError")
               /\ UNCHANGED search_results
    /\ UNCHANGED <<entry, loop_running, legacy_defined, attempts, scraped, topics,
                   gen_articles, result, summaries, errorNotes, exitCode>>
    /\ UNCHANGED notOrch

\* scraped_content = execute_scrape_phase(): GeminiSearch() is constructed,
\* then scrape_sites_sync calls asyncio.run.
ScrapePhase ==
    /\ mode = "orch" /\ opc = "scrape"
    /\ IF AsyncioRunRaises(loop_running)
       THEN /\ \/ Raised("scrape", "RuntimeError")
               \/ Raised("scrape", "ClientError")
            /\ UNCHANGED scraped
       ELSE \/ /\ Returned("scrape")
               /\ scraped' \in 0..MaxFound
               /\ opc' = NextStage("scrape")
            \/ /\ Raised("scrape", "ClientError")
               /\ UNCHANGED scraped
    /\ UNCHANGED <<entry, loop_running, legacy_defined, attempts, search_results,
                   topics, gen_articles, result, summaries, errorNotes, exitCode>>
    /\ UNCHANGED notOrch

\* What one attempt of analyze_topics ends with, given the oracle's
\* response: the parsed topics, json.JSONDecodeError (or a validation error)
\* for a response that is not the expected structure, the oracle's own
\* exception when the call fails.
AnalyzeTopics(kind) ==
    IF kind = "topics" THEN "return"
    ELSE IF kind = "malformed" THEN "JSONDecodeError"
    ELSE "OracleError"

\* Mutation of RetryStops: one attempt more.
RetryStopsLate(n) == n > RetryAttempts

\* stop_after_attempt(max_attempts): no further attempt after the n-th.
RetryStops(n) == n >= RetryAttempts

\* Mutation of AfterFailedAttempt: the exception re-raised one attempt early.
AfterFailedAttemptEarly(n) == IF RetryStops(n + 1) THEN "reraise" ELSE "retry"

\* retry_api_call, after the n-th attempt raised: the operation is called
\* again (any Exception is retried), or, when the stop condition holds, the
\* exception is re-raised (reraise=True).
AfterFailedAttempt(n) == IF RetryStops(n) THEN "reraise" ELSE "retry"

\* topics = execute_analysis_phase(search_results, scraped_content): one
\* attempt of the retried analyze_topics.  A failed attempt is repeated
\* until stop_after_attempt(3), then the exception is re-raised.  After a
\* return, the `if not topics:` branch: the failure result is built; the
\* scheduled job goes on to send it, run_workflow_once calls sys.exit(1).
AnalysisPhase(kind, n) ==
    /\ mode = "orch" /\ opc = "analysis"
    /\ attempts' = attempts + 1
    /\ IF AnalyzeTopics(kind) = "return"
       THEN /\ Returned("analysis")
            /\ topics' = n
            /\ IF NoTopics(n)
               THEN /\ result' = NoTopicsResult
                    /\ IF entry = "job"
                       THEN opc' = "deliver" /\ UNCHANGED exitCode
                       ELSE opc' = "exited" /\ exitCode' = 1
               ELSE /\ opc' = NextStage("analysis")
                    /\ UNCHANGED <<result, exitCode>>
       ELSE /\ IF RetryStops(attempts + 1)
               THEN Raised("analysis", AnalyzeTopics(kind))
               ELSE UNCHANGED <<calls, stageOut, error, opc>>
            /\ UNCHANGED <<topics, result, exitCode>>
    /\ UNCHANGED <<entry, loop_running, legacy_defined, search_results, scraped,
                   gen_articles, summaries, errorNotes>>
    /\ UNCHANGED notOrch

\* articles = execute_generation_phase(topics): GeminiClient() is
\* constructed, then asyncio.run; the articles of some of the first
\* min(len(topics), MAX_ARTICLES_PER_RUN) topics, in topic order.
GenerationPhase ==
    /\ mode = "orch" /\ opc = "generation"
    /\ IF AsyncioRunRaises(loop_running)
       THEN /\ \/ Raised("generation", "RuntimeError")
               \/ Raised("generation", "ClientError")
            /\ UNCHANGED gen_articles
       ELSE \/ /\ Returned("generation")
               /\ gen_articles' \in SubSeqs(Min(topics, MAX_ARTICLES_PER_RUN))
               /\ opc' = NextStage("generation")
            \/ /\ Raised("generation", "ClientError")
               /\ UNCHANGED gen_articles
    /\ UNCHANGED <<entry, loop_running, legacy_defined, attempts, search_results,
                   scraped, topics, result, summaries, errorNotes, exitCode>>
    /\ UNCHANGED notOrch

\* pdf_results = execute_output_phase(articles): GoogleDocsService() and
\* TelegramNotifier() are constructed, per-article failures are absorbed;
\* then the WorkflowResult with success=True, whatever `articles` holds.
OutputPhase ==
    /\ mode = "orch" /\ opc = "output"
    /\ \/ /\ Returned("output")
          /\ result' = CompletedResult(gen_articles)
          /\ opc' = "deliver"
       \/ /\ Raised("output", "ClientError")
          /\ UNCHANGED result
    /\ UNCHANGED <<entry, loop_running, legacy_defined, attempts, search_results,
                   scraped, topics, gen_articles, summaries, errorNotes, exitCode>>
    /\ UNCHANGED notOrch

\* await bot_service.send_workflow_summary(result): True when everything
\* was sent, False when sending raised (caught inside the method).
Deliver(sent) ==
    /\ mode = "orch" /\ opc = "deliver"
    /\ summaries' = Append(summaries, sent)
    /\ opc' = "end"
    /\ UNCHANGED <<entry, loop_running, legacy_defined, stageOut, calls, attempts,
                   error, search_results, scraped, topics, gen_articles, result,
                   errorNotes, exitCode>>
    /\ UNCHANGED notOrch

\* send_notification: asyncio.run(_send()) inside try; any exception, the
\* RuntimeError of a running loop included, is caught and False returned.
SendNotification(running) ==
    IF AsyncioRunRaises(running) THEN {FALSE} ELSE BOOLEAN

\* The `except Exception` handler: the scheduled job calls
\* send_error_notification and builds no WorkflowResult; run_workflow_once
\* calls sys.exit(1).
Caught(sent) ==
    /\ mode = "orch" /\ opc = "caught"
    /\ IF entry = "job"
       THEN /\ sent \in SendNotification(loop_running)
            /\ errorNotes' = Append(errorNotes, sent)
            /\ opc' = "end"
            /\ UNCHANGED exitCode
       ELSE /\ sent = FALSE
            /\ exitCode' = 1
            /\ opc' = "exited"
            /\ UNCHANGED errorNotes
    /\ UNCHANGED <<entry, loop_running, legacy_defined, stageOut, calls, attempts,
                   error, search_results, scraped, topics, gen_articles, result,
                   summaries>>
    /\ UNCHANGED notOrch

NextOrch ==
    \/ Imports
    \/ SearchPhase
    \/ ScrapePhase
    \/ \E kind \in {"topics", "malformed", "error"} : \E n \in 0..MaxSelected :
          AnalysisPhase(kind, n)
    \/ GenerationPhase
    \/ OutputPhase
    \/ \E sent \in BOOLEAN : Deliver(sent)
    \/ \E sent \in BOOLEAN : Caught(sent)

SpecOrch == InitOrch /\ [][NextOrch]_vars

(***************************************************************************)
(* The ad-hoc pipeline: execute_manual_workflow                            *)
(*                                                                         *)
(* One request of the bot for one topic.  The coroutine runs on the bot's  *)
(* event loop; the oracle calls are made in worker threads (research,      *)
(* article text, image) or directly (image prompt), none with a timeout.   *)
(***************************************************************************)

RECURSIVE NonBlank(_, _)
NonBlank(urls, i) ==
    IF i > Len(urls) THEN <<>>
    ELSE (IF urls[i] # "" THEN <<urls[i]>> ELSE <<>>) \o NonBlank(urls, i + 1)

FirstN(sq, n) == SubSeq(sq, 1, Min(Len(sq), n))

\* _research_topic: _search_single_query in a worker thread.  That method
\* returns [] for any exception of the oracle call, so nothing is raised
\* here; `results if results else []` is returned.
ResearchTopic(outcome, urls) == IF outcome = "ok" THEN urls ELSE <<>>

\* _create_topic_from_results: the non-empty urls of the first 5 results.
FontiOf(rs) == NonBlank(FirstN(rs, TopSources), 1)

\* "Convert search results to TopicSource": one source per result among
\* the first 5 whose url validates as HttpUrl; a failing one is skipped.
\* (The urls of the model other than "" stand for valid ones.)
SourcesOf(rs) == NonBlank(FirstN(rs, TopSources), 1)

\* Mutation of AfterImageFailure: the handler lets the exception through.
AfterImageFailureRaises == "raised"

\* `except Exception` around the image step of execute_manual_workflow:
\* a warning is logged and the pipeline goes on.
AfterImageFailure == "render"

\* generate_article_pdf: the rendered article, the error PDF when rendering
\* raised, the bare fallback page when the error PDF raised as well.
GenerateArticlePdf(outcome) ==
    IF outcome = "ok" THEN "article_pdf"
    ELSE IF outcome = "raise" THEN "error_pdf"
    ELSE "fallback_pdf"

InitManual ==
    /\ mode = "manual"
    /\ BatchIdle
    /\ ResearchIdle
    /\ OrchIdle
    /\ KeywordsIdle
    /\ mpc = "services"
    /\ research_failed = FALSE
    /\ research_results = <<>>
    /\ fonti = <<>>
    /\ article_attempts = 0
    /\ article_content = "None"
    /\ image_prompt = "None"
    /\ image_attempts = 0
    /\ image_failed = FALSE
    /\ image_base64 = "None"
    /\ article = NoArticle
    /\ pdf_bytes = "None"
    /\ raised_exc = "none"

\* "Initialize services": the four constructors; an exception of one of
\* them leaves the coroutine.
InitServices(outcome) ==
    /\ mode = "manual" /\ mpc = "services"
    /\ IF outcome = "ok"
       THEN mpc' = "research" /\ UNCHANGED raised_exc
       ELSE mpc' = "raised" /\ raised_exc' = "ClientError"
    /\ UNCHANGED <<research_failed, research_results, fonti, article_attempts,
                   article_content, image_prompt, image_attempts, image_failed,
                   image_base64, article, pdf_bytes>>
    /\ UNCHANGED notManual

\* Steps 1 and 2: search_results = await _research_topic(...), then the
\* Topic is created from them.
Research(outcome, urls) ==
    /\ mode = "manual" /\ mpc = "research"
    /\ research_failed' = (outcome # "ok")
    /\ research_results' = ResearchTopic(outcome, urls)
    /\ fonti' = FontiOf(ResearchTopic(outcome, urls))
    /\ mpc' = "article"
    /\ UNCHANGED <<raised_exc, article_attempts, article_content, image_prompt, image_attempts,
                   image_failed, image_base64, article, pdf_bytes>>
    /\ UNCHANGED notManual

\* Step 3: one attempt of the retried generate_article in a worker thread.
\* A failed attempt is repeated until stop_after_attempt(3); the exception
\* then leaves _generate_article_async and the coroutine.
GenerateArticle(outcome) ==
    /\ mode = "manual" /\ mpc = "article"
    /\ article_attempts' = article_attempts + 1
    /\ IF outcome \in {"text", "empty"}
       THEN /\ article_content' = outcome
            /\ mpc' = "image_prompt"
            /\ UNCHANGED raised_exc
       ELSE /\ IF AfterFailedAttempt(article_attempts + 1) = "reraise"
               THEN mpc' = "raised" /\ raised_exc' = "OracleError"
               ELSE UNCHANGED <<mpc, raised_exc>>
            /\ UNCHANGED article_content
    /\ UNCHANGED <<research_failed, research_results, fonti, image_prompt,
                   image_attempts, image_failed, image_base64, article, pdf_bytes>>
    /\ UNCHANGED notManual

\* Step 4, first half: generate_image_prompt.  An exception of the oracle
\* call is caught inside the method, which then returns a fixed prompt.
GenerateImagePrompt(outcome) ==
    /\ mode = "manual" /\ mpc = "image_prompt"
    /\ image_prompt' = IF outcome = "ok" THEN "oracle" ELSE "fallback"
    /\ mpc' = "image"
    /\ UNCHANGED <<research_failed, research_results, fonti, article_attempts,
                   article_content, image_attempts, image_failed, image_base64,
                   article, pdf_bytes, raised_exc>>
    /\ UNCHANGED notManual

\* Step 4, second half: one attempt of the retried generate_image (through
\* generate_image_base64) in a worker thread.  After the third failure the
\* exception reaches the handler of execute_manual_workflow and
\* image_base64 stays None.
GenerateImage(outcome) ==
    /\ mode = "manual" /\ mpc = "image"
    /\ image_attempts' = image_attempts + 1
    /\ IF outcome = "data"
       THEN /\ image_base64' = "data"
            /\ mpc' = "render"
            /\ UNCHANGED <<image_failed, raised_exc>>
       ELSE /\ IF AfterFailedAttempt(image_attempts + 1) = "reraise"
               THEN /\ image_failed' = TRUE
                    /\ mpc' = AfterImageFailure
                    /\ raised_exc' = IF AfterImageFailure = "raised"
                                     THEN "OracleError" ELSE raised_exc
               ELSE UNCHANGED <<image_failed, mpc, raised_exc>>
            /\ UNCHANGED image_base64
    /\ UNCHANGED <<research_failed, research_results, fonti, article_attempts,
                   article_content, image_prompt, article, pdf_bytes>>
    /\ UNCHANGED notManual

\* Steps 5 and 6: the sources and the Article are built, the PDF is
\* generated and both are returned.
Render(outcome) ==
    /\ mode = "manual" /\ mpc = "render"
    /\ article' = [built |-> TRUE, content |-> article_content,
                   image_base64 |-> image_base64, fonti |-> fonti,
                   sources |-> SourcesOf(research_results)]
    /\ pdf_bytes' = GenerateArticlePdf(outcome)
    /\ mpc' = "returned"
    /\ UNCHANGED <<research_failed, research_results, fonti, article_attempts,
                   article_content, image_prompt, image_attempts, image_failed,
                   image_base64, raised_exc>>
    /\ UNCHANGED notManual

NextManual ==
    \/ \E o \in {"ok", "raise"} : InitServices(o)
    \/ \E o \in {"ok", "raise"} : \E urls \in ResearchAnswers : Research(o, urls)
    \/ \E o \in {"text", "empty", "raise"} : GenerateArticle(o)
    \/ \E o \in {"ok", "raise"} : GenerateImagePrompt(o)
    \/ \E o \in {"data", "raise"} : GenerateImage(o)
    \/ \E o \in {"ok", "raise", "raise_twice"} : Render(o)

SpecManual == InitManual /\ [][NextManual]_vars

(***************************************************************************)
(* Keyword extraction: _extract_keywords                                   *)
(*                                                                         *)
(* A pure function of the topic text.  The text is given by its words, the *)
(* runs of characters between whitespace, which is what str.split()        *)
(* yields; lower() turns each of them into its lowercase form.             *)
(***************************************************************************)

\* The words the modelled topic texts are made of: a stopword, a stopword
\* in capitals, a short word, two ordinary words and the domain word.
Words == {"di", "Del", "tv", "Etna", "vino", "Sicilia"}

\* str.lower on the words of the model.
Lower(w) ==
    CASE w = "Del" -> "del"
      [] w = "Etna" -> "etna"
      [] w = "Sicilia" -> "sicilia"
      [] OTHER -> w

\* The Italian stopwords of _extract_keywords.
Stopwords ==
    {"un", "una", "il", "la", "i", "le", "gli", "lo",
     "di", "da", "in", "su", "per", "con", "tra", "fra",
     "e", "o", "ma", "se", "che", "del", "della", "dei",
     "delle", "al", "alla", "ai", "alle", "sul", "sulla",
     "sui", "sulle", "nel", "nella", "nei", "nelle"}

\* topic.lower().split()
RECURSIVE LowerWords(_, _)
LowerWords(text, i) ==
    IF i > Len(text) THEN <<>>
    ELSE <<Lower(text[i])>> \o LowerWords(text, i + 1)

\* Mutation of Survives: the length test dropped.
SurvivesAnyLength(w) == w \notin Stopwords

\* The condition of the list comprehension.
Survives(w) == w \notin Stopwords /\ Len(w) > MinKeywordLen

RECURSIVE Surviving(_, _)
Surviving(ws, i) ==
    IF i > Len(ws) THEN <<>>
    ELSE (IF Survives(ws[i]) THEN <<ws[i]>> ELSE <<>>) \o Surviving(ws, i + 1)

\* `'sicilia' not in [k.lower() for k in keywords]` and the append.
WithSicilia(ks) ==
    IF \E i \in 1..Len(ks) : Lower(ks[i]) = "sicilia"
    THEN ks
    ELSE Append(ks, "Sicilia")

\* _extract_keywords: filter, append, then keywords[:5].
ExtractKeywords(text) ==
    FirstN(WithSicilia(Surviving(LowerWords(text, 1), 1)), KeywordLimit)

\* The topic texts of the model.
TopicTexts == UNION {[1..n -> Words] : n \in 0..MaxWords}

InitKeywords ==
    /\ mode = "keywords"
    /\ BatchIdle
    /\ ResearchIdle
    /\ OrchIdle
    /\ ManualIdle
    /\ kpc = "called"
    /\ topic_text \in TopicTexts
    /\ keywords = <<>>

\* One call of _extract_keywords(topic_text).
ExtractKeywordsCall ==
    /\ mode = "keywords" /\ kpc = "called"
    /\ keywords' = ExtractKeywords(topic_text)
    /\ kpc' = "returned"
    /\ UNCHANGED topic_text
    /\ UNCHANGED notKeywords

NextKeywords == ExtractKeywordsCall

SpecKeywords == InitKeywords /\ [][NextKeywords]_vars

(***************************************************************************)
(* Claims about keyword extraction                                         *)
(***************************************************************************)

\* a is b with some elements left out, the others in the same order
RECURSIVE IsSubSeq(_, _, _, _)
IsSubSeq(a, i, b, j) ==
    IF i > Len(a) THEN TRUE
    ELSE IF j > Len(b) THEN FALSE
    ELSE IF a[i] = b[j] THEN IsSubSeq(a, i + 1, b, j + 1)
    ELSE IsSubSeq(a, i, b, j + 1)

\* The keywords returned that come from the text: all of them but an
\* appended "Sicilia" (a word of the text is lowercase, the literal is not).
FromText(ks) ==
    IF ks # <<>> /\ ks[Len(ks)] = "Sicilia" THEN SubSeq(ks, 1, Len(ks) - 1) ELSE ks

\* C21: the list keyword extraction returns always contains "Sicilia"
\* (compared without regard to case), also when five or more words of the
\* text survive the filter.
C21_KeywordsContainSicilia ==
    (mode = "keywords" /\ kpc = "returned") =>
        \E i \in 1..Len(keywords) : Lower(keywords[i]) = "sicilia"

\* C22: keyword extraction returns at most 5 keywords; each of them other
\* than the appended literal is a lowercased word of the text that is no
\* stopword and is longer than 2 characters, and they keep the order of
\* the text.
C22_KeywordsFilteredInOrder ==
    (mode = "keywords" /\ kpc = "returned") =>
        /\ Len(keywords) <= 5
        /\ \A i \in 1..Len(FromText(keywords)) :
              /\ FromText(keywords)[i] \notin Stopwords
              /\ Len(FromText(keywords)[i]) > 2
        /\ IsSubSeq(FromText(keywords), 1, LowerWords(topic_text, 1), 1)

C22_Witness ==
    /\ mode = "keywords" /\ kpc = "returned"
    /\ topic_text = <<"di", "Etna", "tv", "Del", "vino">>
    /\ keywords = <<"etna", "vino", "Sicilia">>

(***************************************************************************)
(* Claims about the ad-hoc pipeline                                        *)
(***************************************************************************)

C20_ResearchAndArticleFailuresFatal ==
    mode = "manual" =>
        /\ research_failed =>
              (mpc \notin {"article", "image_prompt", "image", "render", "returned"}
               /\ ~article.built /\ pdf_bytes = "None")
        /\ (article_attempts = RetryAttempts /\ article_content = "None") =>
              (mpc = "raised" /\ ~article.built /\ pdf_bytes = "None")

\* C29: an operation wrapped with retry_api_call(max_attempts=3) (here the
\* article text and the image of one request) is attempted at most 3
\* times; an attempt is made only while no earlier attempt has succeeded;
\* the value of the attempt that succeeds is what the call returns; when
\* all 3 attempts have raised the exception is re-raised to the caller.
C29_RetryAtMostThreeTimes ==
    /\ [](mode = "manual" =>
            /\ article_attempts <= 3 /\ image_attempts <= 3
            /\ article_content # "None" => mpc # "article"
            /\ image_base64 # "None" => mpc # "image"
            /\ (mpc = "article" /\ article_attempts > 0) => article_attempts < 3
            /\ (mpc = "image" /\ image_attempts > 0) => image_attempts < 3
            /\ (article_attempts = 3 /\ article_content = "None") =>
                  (mpc = "raised" /\ raised_exc = "OracleError")
            /\ image_failed <=> (image_attempts = 3 /\ image_base64 = "None"))
    /\ [][mode = "manual" =>
            /\ article_attempts' # article_attempts =>
                  /\ article_attempts' = article_attempts + 1
                  /\ article_content = "None"
                  /\ article_content' # "None" => mpc' = "image_prompt"
            /\ image_attempts' # image_attempts =>
                  /\ image_attempts' = image_attempts + 1
                  /\ image_base64 = "None"
                  /\ image_base64' # "None" => mpc' = "render"]_vars

C29_Witness ==
    /\ mode = "manual" /\ mpc = "returned"
    /\ article_attempts = 3 /\ article_content = "text"
    /\ image_attempts = 2 /\ image_base64 = "data"
    /\ article.built /\ article.content = "text" /\ article.image_base64 = "data"

(***************************************************************************)
(* Claims about the orchestrator                                           *)
(***************************************************************************)

RunEnded == opc \in {"end", "exited"}

\* C10: when the analysis returns an empty topic list, the run ends with a
\* result that has success = False, an error message saying that no topics
\* were selected and no articles, and neither the generation nor the output
\* stage is called in that run.
C10_NoTopicsEndsRun ==
    (mode = "orch" /\ stageOut["analysis"] = "returned" /\ topics = 0) =>
        /\ calls["generation"] = 0
        /\ calls["output"] = 0
        /\ result = [built |-> TRUE, articles |-> <<>>, sources_monitored |-> NumSites,
                     success |-> FALSE,
                     error_message |-> "No topics selected from analysis"]
        /\ opc \in {"deliver", "end", "exited"}

C10_Witness ==
    /\ mode = "orch" /\ RunEnded
    /\ stageOut["analysis"] = "returned" /\ topics = 0
    /\ result.built /\ ~result.success /\ result.articles = <<>>
    /\ calls["generation"] = 0 /\ calls["output"] = 0

\* C11: when the generation returns no article for a non-empty topic list,
\* the run ends with a result that has success = False and the message
\* "No articles generated"; no result is ever built with success = True and
\* an empty article list.
C11_NoArticlesSoftFailure ==
    mode = "orch" =>
        /\ ~(result.built /\ result.success /\ result.articles = <<>>)
        /\ (/\ RunEnded /\ error = "none"
            /\ topics > 0
            /\ stageOut["generation"] = "returned" /\ gen_articles = <<>>)
           => /\ result.built /\ ~result.success
              /\ result.error_message = "No articles generated"

\* Calls that hand the outcome of the run to the delivery channel: the
\* summaries and the error notifications.
Deliveries == Len(summaries) + Len(errorNotes)

\* C12: from either entry point and whichever way the run ends (completed,
\* no topics, no articles, exception caught), the outcome has been handed to
\* the delivery channel exactly once when the run has ended.
C12_DeliveredExactlyOnce ==
    (mode = "orch" /\ RunEnded) => Deliveries = 1

\* C13: when a stage raised, the run ends with a failure result built
\* (success = False, a non-empty error message) and with one error
\* notification that was delivered.
C13_ErrorCaughtNotifies ==
    (mode = "orch" /\ RunEnded /\ \E st \in Stages : stageOut[st] = "raised") =>
        /\ result.built /\ ~result.success /\ result.error_message # ""
        /\ Len(errorNotes) = 1
        /\ errorNotes[1]

\* C14: an oracle response that does not parse as the topic structure makes
\* the analysis stage raise rather than return a list, and the run then
\* ends with a result that has success = False and a non-empty error
\* message.
C14_MalformedResponseFails ==
    (mode = "orch" /\ error = "JSONDecodeError") =>
        /\ stageOut["analysis"] = "raised"
        /\ calls["generation"] = 0
        /\ RunEnded => (result.built /\ ~result.success /\ result.error_message # "")

\* C15: a run as main.py starts it, in which no collaborator fails, the
\* analysis (when reached) selects at least one topic and the generation
\* (when reached) returns at least one article, ends completed: the output
\* stage returned, the result has success = True and holds the generated
\* articles, and the summary was handed to delivery.
C15_HappyPathReachesDone ==
    (/\ mode = "orch" /\ AsShipped /\ RunEnded
     /\ error \notin CollaboratorErrors
     /\ stageOut["analysis"] = "returned" => topics > 0
     /\ stageOut["generation"] = "returned" => gen_articles # <<>>)
    => /\ stageOut["output"] = "returned"
       /\ result = CompletedResult(gen_articles)
       /\ gen_articles # <<>>
       /\ Len(summaries) = 1

\* The stages in the order of the entry points' statements.
StageOrder == <<"search", "scrape", "analysis", "generation", "output">>

\* The stage has been entered: its call was made (for the analysis, an
\* attempt of it was made).
Entered(st) == calls[st] > 0 \/ (st = "analysis" /\ attempts > 0)

\* C23: the stages of the scheduled pipeline run in the order Search,
\* Scrape, Analyze, Generate, Output, one at a time: a stage is entered only
\* after the stage before it has returned, at most once, and while it is
\* the current one no later stage has been entered; after Search or Scrape
\* has returned, whatever the number of its results, the next stage is the
\* one the run goes to.
C23_StagesInOrder ==
    mode = "orch" =>
        /\ \A st \in Stages : calls[st] <= 1
        /\ \A i \in 2..Len(StageOrder) :
              Entered(StageOrder[i]) => stageOut[StageOrder[i - 1]] = "returned"
        /\ \A i \in 1..Len(StageOrder) :
              opc = StageOrder[i] =>
                 \A j \in (i + 1)..Len(StageOrder) : ~Entered(StageOrder[j])
        /\ (stageOut["search"] = "returned" /\ ~Entered("scrape")) => opc = "scrape"
        /\ (stageOut["scrape"] = "returned" /\ ~Entered("analysis")) => opc = "analysis"

C23_Witness ==
    /\ mode = "orch"
    /\ search_results = 0 /\ scraped = 0
    /\ stageOut["search"] = "returned" /\ stageOut["scrape"] = "returned"
    /\ stageOut["output"] = "returned"

\* The analysis stage has ended, by return or by exception.
AnalysisEnded == stageOut["analysis"] \in {"returned", "raised"}

Succeeded(i) ==
    /\ ~timedOut[i]
    /\ IF stage = "scrape" THEN call[i] = "content" ELSE call[i] \in {"content", "empty"}

StageOutput == IF stage = "scrape" THEN scraped_content ELSE articles

OutputUnits == {StageOutput[k].unit : k \in DOMAIN StageOutput}

\* C1: in every reachable state of the scrape batch and of the generation
\* batch, the number of units holding a permit of the gate is at most the
\* gate's capacity (max_concurrent for scraping, 3 for generation), with
\* more units than permits.
C1_GateBound ==
    mode = "batch" => Cardinality(Holders) <= Capacity

C1_Witness ==
    /\ mode = "batch" /\ stage = "generate"
    /\ NumUnits > Capacity
    /\ Cardinality(Holders) = Capacity
    /\ waiters # <<>>

\* C2: once a unit has timed out, the results of its siblings are collected
\* without waiting for the timed-out unit's underlying call: while that call
\* is still running, a sibling whose own call has returned can finish.
C2_SiblingsNotDelayed ==
    \A i \in Units : \A j \in Units :
        (/\ mode = "batch"
         /\ timedOut[i] /\ call[i] = "running"
         /\ pc[j] = "awaiting" /\ call[j] \in {"content", "empty", "raise"})
        => ENABLED Complete(j)

\* C3: whatever the completion order, the gathered list has one slot per
\* unit and slot i holds the outcome of unit i; the content kept for a site
\* carries that site's tag, and the stage output is in unit order.
C3_SlotPerUnit ==
    (mode = "batch" /\ phase = "done") =>
        /\ DOMAIN results = Units
        /\ \A i \in Units :
              /\ Succeeded(i) <=> results[i].kind \in {"content", "article"}
              /\ Succeeded(i) => results[i].unit = i /\ results[i].tag = i
              /\ (stage = "generate" /\ timedOut[i]) => results[i].kind = "timeout"
        /\ \A k \in DOMAIN StageOutput :
              /\ StageOutput[k].tag = StageOutput[k].unit
              /\ \A l \in DOMAIN StageOutput :
                    k < l => StageOutput[k].unit < StageOutput[l].unit

C3_Witness ==
    /\ mode = "batch" /\ phase = "done"
    /\ Len(StageOutput) >= 2
    /\ \E k \in DOMAIN doneOrder : \E l \in DOMAIN doneOrder :
          /\ k < l /\ doneOrder[k] > doneOrder[l]
          /\ Succeeded(doneOrder[k]) /\ Succeeded(doneOrder[l])

\* C4: an exception raised in one unit becomes that unit's failure and does
\* not leave the batch: the batch never raises, and every unit that
\* succeeded has its result in the stage output.
C4_FailureIsolated ==
    mode = "batch" =>
        /\ phase # "raised"
        /\ phase = "done" => \A i \in Units : Succeeded(i) => i \in OutputUnits

C4_Witness ==
    /\ mode = "batch" /\ phase = "done" /\ stage = "generate"
    /\ \E i \in Units : call[i] = "raise" /\ results[i].kind = "exception"
    /\ \E j \in Units : Succeeded(j) /\ j \in OutputUnits

\* C8: the scrape output has exactly one entry for each source whose scrape
\* succeeded and none for a source that errored, timed out or returned no
\* content; with one of the sources timing out and the others succeeding
\* the output has one entry fewer than there are sources.
C8_OnlySuccessfulSources ==
    (mode = "batch" /\ stage = "scrape" /\ phase = "done") =>
        /\ OutputUnits = {i \in Units : Succeeded(i)}
        /\ Len(scraped_content) = Cardinality({i \in Units : Succeeded(i)})

C8_Witness ==
    /\ mode = "batch" /\ stage = "scrape" /\ phase = "done"
    /\ Cardinality({i \in Units : timedOut[i]}) = 1
    /\ \A i \in Units : ~timedOut[i] => call[i] = "content"
    /\ Len(scraped_content) = NumSites - 1

\* C9: at the end of the scrape stage the timeout tally equals the number
\* of sources whose unit timed out.
C9_TimeoutTally ==
    (mode = "batch" /\ stage = "scrape" /\ phase = "done") =>
        timeout_count = Cardinality({i \in Units : timedOut[i]})

\* C16: the generation returns at most settings.MAX_ARTICLES_PER_RUN
\* articles and at most as many as it was handed topics; the run result
\* carries that list unchanged.
C16_ArticlesBounded ==
    (mode = "batch" /\ stage = "generate") =>
        /\ Len(articles) <= max_articles_per_run
        /\ Len(articles) <= len_topics

C16_Witness ==
    /\ mode = "batch" /\ stage = "generate" /\ phase = "done"
    /\ len_topics > max_articles_per_run
    /\ Len(articles) = max_articles_per_run

\* C17: whichever generation units fail or time out, all of them included,
\* the generation does not raise and returns exactly the articles of the
\* units that succeeded; a unit that failed or timed out has no article in
\* the list.
C17_GenerationReturnsSucceeded ==
    (mode = "batch" /\ stage = "generate") =>
        /\ phase # "raised"
        /\ phase = "done" =>
              /\ \A k \in DOMAIN articles : articles[k].kind = "article"
              /\ OutputUnits = {i \in Units : Succeeded(i)}
              /\ Len(articles) = Cardinality({i \in Units : Succeeded(i)})

C17_Witness ==
    /\ mode = "batch" /\ stage = "generate" /\ phase = "done"
    /\ NumUnits >= 2
    /\ \A i \in Units : ~Succeeded(i)
    /\ \E i \in Units : timedOut[i]
    /\ \E i \in Units : call[i] = "raise"
    /\ articles = <<>>

\* C18: every permit taken is given back on every way out of the guarded
\* unit: the permits held and the free ones always add up to the capacity,
\* a unit that is done holds none, when the batch has completed all permits
\* are free and nobody waits, and the permit of a unit that failed or timed
\* out is there for a waiting unit to take.
C18_AcquirePairedWithRelease ==
    mode = "batch" =>
        /\ permits + Cardinality(Holders) = Capacity
        /\ \A i \in Units : pc[i] = "done" => i \notin Holders
        /\ (waiters # <<>> /\ permits > 0 /\ ~LoopBlocked) => ENABLED Wake(Head(waiters))
        /\ phase = "done" => (permits = Capacity /\ waiters = <<>>)

C18_Witness ==
    /\ mode = "batch" /\ stage = "scrape" /\ max_concurrent = 1
    /\ timedOut[1] /\ pc[1] = "done"
    /\ call[2] = "raise" /\ pc[2] = "done"
    /\ pc[3] = "awaiting"
    /\ permits = 0

\* The topics, by position in the input, for which a generation unit has
\* issued its call.
Issued == {i \in Units : call[i] # "idle"}

\* C27: the generation issues units for exactly the first N topics of its
\* input, N = min(len(topics), MAX_ARTICLES_PER_RUN), starting them in
\* input order; no topic beyond position N gets a unit, and each article
\* returned is that of its unit's topic, the list in input order.
C27_FirstTopicsInOrder ==
    (mode = "batch" /\ stage = "generate") =>
        /\ DOMAIN pc = 1..Min(len_topics, max_articles_per_run)
        /\ Issued \subseteq 1..Min(len_topics, max_articles_per_run)
        /\ \A i \in Units : \A j \in Units : (j < i /\ pc[i] # "new") => pc[j] # "new"
        /\ phase = "done" =>
              /\ Issued = 1..Min(len_topics, max_articles_per_run)
              /\ \A k \in DOMAIN articles : articles[k].tag = articles[k].unit
              /\ \A k \in DOMAIN articles : \A l \in DOMAIN articles :
                    k < l => articles[k].tag < articles[l].tag

C27_Witness ==
    /\ mode = "batch" /\ stage = "generate" /\ phase = "done"
    /\ len_topics = NumTopics /\ max_articles_per_run = LowArticleLimit
    /\ call[1] = "raise"
    /\ Len(articles) = LowArticleLimit - 1
    /\ articles[1].tag = 2

\* C30: when the scrape stage has processed a batch every source is counted
\* once: successes and failures add up to the number of sources, and the
\* list returned has as many entries as there are successes.
C30_EverySourceCountedOnce ==
    (mode = "batch" /\ stage = "scrape" /\ phase = "done") =>
        /\ successful + failed = NumSites
        /\ Len(scraped_content) = successful

C30_Witness ==
    /\ mode = "batch" /\ stage = "scrape" /\ phase = "done"
    /\ \E i \in Units : timedOut[i]
    /\ \E i \in Units : ~timedOut[i] /\ call[i] = "raise"
    /\ \E i \in Units : ~timedOut[i] /\ call[i] = "empty"
    /\ successful = 1 /\ failed = NumSites - 1

\* C26: the event loop is never blocked for the duration of an oracle call:
\* while the call of a unit is outstanding in its worker thread, the
\* event-loop thread is not held in a blocking wait, so other handlers and
\* the other units of the batch can run.
C26_LoopNeverBlocked ==
    mode = "batch" =>
        \A i \in Units : call[i] = "running" => ~LoopBlocked

====
